---------------------------- MODULE Spec2Model ----------------------------
(***************************************************************************)
(* The two single-producer/single-consumer ring buffers of the repository: *)
(*   SPSCQueue     (src/SPSCQueue.h)       cursors write_idx / read_idx    *)
(*   SPSCQueueOPT  (src/unnamed/part_001)  per-block avail flag            *)
(* One queue object of class cls and capacity CNT is constructed in Init.  *)
(* One producer thread and one consumer thread call its methods.  A step   *)
(* of a thread is one access to memory the other thread can see, together  *)
(* with the thread-local computation around it; the accesses of one thread *)
(* happen in program order (the stores are release stores and the loads of *)
(* the other thread's variable are acquire/consume loads, which every      *)
(* build treats as acquire).                                               *)
(***************************************************************************)
EXTENDS Integers, Sequences, FiniteSets, TLC

(* ------------------------------ bounds -------------------------------- *)
\* capacities constructed: CNT \in {2^0, ..., 2^MaxLogCNT}
MaxLogCNT == 2
\* number of values the producer publishes in one run (more than 2^IdxBits,
\* so that the cursors of SPSCQueue wrap)
MaxPush == 9

(* --------------------------- pure helpers ----------------------------- *)
RECURSIVE Pow2(_)
Pow2(k) == IF k = 0 THEN 1 ELSE 2 * Pow2(k - 1)

\* the template arguments CNT accepted by the static_assert
Capacities == { Pow2(k) : k \in 0..MaxLogCNT }

\* uint32_t, modelled with IdxBits bits: every capacity divides 2^IdxBits
\* and is smaller than it, as every uint32_t CNT is with 2^32
IdxBits == MaxLogCNT + 1
Wrap == Pow2(IdxBits)
\* mutant of the cursor width: 2^w no larger than the largest CNT
U32_narrow(x) == x % Pow2(MaxLogCNT)

U32(x) == x % Wrap

\* a & b on naturals
RECURSIVE BitAnd(_, _)
BitAnd(a, b) ==
  IF a = 0 \/ b = 0 THEN 0
  ELSE (a % 2) * (b % 2) + 2 * BitAnd(a \div 2, b \div 2)

\* nullptr; a non-null T* is the index of the slot it points to
NullPtr == -1

\* what a slot holds before its first write (a T that was never assigned),
\* and while a write of it is under way; the values written are 0, 1, 2, ...
Uninit == -2
Torn == -3

\* the classes
Classes == {"SPSCQueue", "SPSCQueueOPT"}

VARIABLES
  cls,            \* the class of the queue object
  CNT,            \* its template argument
  data,           \* data[i] (SPSCQueue) / blk[i].data (SPSCQueueOPT)
  avail,          \* blk[i].avail (SPSCQueueOPT)
  write_idx,
  read_idx,
  read_idx_cach,  \* SPSCQueue only
  free_write_cnt, \* SPSCQueueOPT only
  p_pc, p_op, p_ptr,         \* producer thread: position, call, pointer p
  c_pc, c_op, c_ptr, c_val,  \* consumer thread: position, call, pointer v, value read
  pushed,         \* history: the values published, in order
  popped,         \* history: the values released, in order
  slot_st,        \* history: each slot's stage in its life cycle
  cach_total,     \* history: the count of pops read_idx_cach was loaded after
  p_ret, c_ret,   \* history: the last call that returned and its result
  wcalls, rcalls, \* history: callback invocations of the current tryPush/blockPush/tryPop
  p_base,         \* history: Len(pushed) when the current tryPush/blockPush was called
  p_steps, c_steps, \* history: steps taken by the current (or last) call, blockPush apart
  scen            \* history: how much of scenario A the run has performed so far

queueVars == <<cls, CNT, data, avail, write_idx, read_idx, read_idx_cach, free_write_cnt>>
prodVars  == <<p_pc, p_op, p_ptr, p_ret, wcalls, p_base, p_steps>>
consVars  == <<c_pc, c_op, c_ptr, c_val, c_ret, rcalls, c_steps>>
histVars  == <<pushed, popped, slot_st, cach_total>>
vars      == <<queueVars, prodVars, consVars, histVars, scen>>

MASK == CNT - 1
Slots == 0..(CNT - 1)

IsQ == cls = "SPSCQueue"
IsOPT == cls = "SPSCQueueOPT"

(* ---------------------------- scenario A ------------------------------ *)
\* Scenario A, run by one thread at a time on an SPSCQueue with CNT = 4, as
\* the calls that return: T a tryPush that returns true, F a tryPush that
\* returns false, P a front/pop pair (or a tryPop that returns true).  The
\* values A, B, C, D, E of the scenario are the values 0, 1, 2, 3, 4.
ScenarioA == <<"T", "T", "T", "T", "F", "P", "T", "P", "P", "P", "P">>
ScenarioCNT == 2 * 2
ScenDone == Len(ScenarioA)
\* the run is not (or no longer) a run of scenario A
ScenOff == Len(ScenarioA) + 1

\* the run has performed the first scen calls of the scenario and call e returns
ScenMatch(e) ==
  IF scen < ScenDone /\ ScenarioA[scen + 1] = e THEN scen + 1 ELSE ScenOff

\* scen after a step of either thread
ScenAfter ==
  IF scen = ScenOff \/ UNCHANGED <<queueVars, prodVars, consVars, histVars>>
  THEN ScenOff
  ELSE IF consVars' = consVars
  THEN \* a step of the producer, the consumer being between two calls
       IF c_pc # "idle" THEN ScenOff
       ELSE IF p_op' = "tryPush" THEN scen
       ELSE IF p_op = "tryPush" /\ p_ret' = <<"tryPush", "true">> THEN ScenMatch("T")
       ELSE IF p_op = "none" /\ p_ret' = <<"tryPush", "false">> THEN ScenMatch("F")
       ELSE ScenOff
  ELSE \* a step of the consumer, the producer being between two calls
       IF p_pc # "idle" THEN ScenOff
       ELSE IF c_pc' \in {"fronted", "read"} /\ c_pc' # c_pc THEN scen
       ELSE IF c_pc = "read" /\ c_pc' = "idle" THEN ScenMatch("P")
       ELSE ScenOff

ScenStep == scen' = ScenAfter

(* ------------------------------ Init ---------------------------------- *)
Init ==
  /\ cls \in Classes
  /\ CNT \in Capacities
  /\ data = [i \in Slots |-> Uninit]
  /\ avail = [i \in Slots |-> FALSE]
  /\ write_idx = 0
  /\ read_idx = 0
  /\ read_idx_cach = 0
  /\ free_write_cnt = (IF IsOPT THEN CNT - 1 ELSE 0)
  /\ p_pc = "idle" /\ p_op = "none" /\ p_ptr = NullPtr
  /\ c_pc = "idle" /\ c_op = "none" /\ c_ptr = NullPtr /\ c_val = Uninit
  /\ pushed = <<>> /\ popped = <<>>
  /\ slot_st = [i \in Slots |-> "Empty"]
  /\ cach_total = 0
  /\ p_ret = <<"none", "none">> /\ c_ret = <<"none", "none">>
  /\ wcalls = 0 /\ rcalls = 0 /\ p_base = 0
  /\ p_steps = 0 /\ c_steps = 0
  /\ scen = (IF IsQ /\ CNT = ScenarioCNT THEN 0 ELSE ScenOff)


(* ------------------- SPSCQueue (src/SPSCQueue.h) ---------------------- *)
\* mutants of alloc's test: full one element late, full one element early
Q_full_late(w, c) == U32(w - c) = CNT + 1
Q_full_early(w, c) == U32(w - c) = CNT - 1

\* alloc's test "write_idx - read_idx_cach == CNT", in uint32_t arithmetic
Q_full(w, c) == U32(w - c) = CNT

\* mutant of the slot index: masked with half the mask
Q_slot_half(i) == BitAnd(i, MASK \div 2)

\* &data[i & MASK]
Q_slot(i) == BitAnd(i, MASK)

\* alloc enters "if (write_idx - read_idx_cach == CNT)", where it loads read_idx
Q_alloc_loads == Q_full(write_idx, read_idx_cach)

\* mutant of alloc: read_idx is never loaded again
Q_alloc_cach_stale == read_idx_cach

\* mutant of alloc: read_idx is loaded in every call
Q_alloc_cach_always == read_idx

\* mutant of alloc: the cache is set one past the read_idx loaded
Q_alloc_cach_ahead ==
  IF Q_alloc_loads THEN U32(read_idx + 1) ELSE read_idx_cach

\* read_idx_cach after alloc: reloaded from read_idx only when the cache says full
Q_alloc_cach ==
  IF Q_alloc_loads THEN read_idx ELSE read_idx_cach

\* alloc's return value
Q_alloc_ret ==
  IF Q_full(write_idx, Q_alloc_cach) THEN NullPtr ELSE Q_slot(write_idx)

\* the value push stores into write_idx, and pop into read_idx
Q_next(i) == U32(i + 1)

\* mutant of front: the slot of the newest element instead of the oldest
Q_front_newest ==
  IF read_idx = write_idx THEN NullPtr ELSE Q_slot(U32(write_idx - 1))

\* mutant of front's test: an ordered comparison, wrong once write_idx wraps
Q_empty_wrap(r, w) == r >= w

\* mutant of front's test: compares with the cursor after the write cursor
Q_empty_off(r, w) == r = Q_next(w)

\* front's test "read_idx == write_idx.load()"
Q_empty(r, w) == r = w

\* front's return value
Q_front_ret ==
  IF Q_empty(read_idx, write_idx) THEN NullPtr ELSE Q_slot(read_idx)

(* ----------------- SPSCQueueOPT (src/unnamed/part_001) ---------------- *)
\* mutant of the free count: every one of the CNT blocks counted as usable
OPT_free_all(rd, wr) == CNT - BitAnd(U32(wr - rd), MASK)

\* mutant of the free count: the mask forgotten
OPT_free_nomask(rd, wr) == U32(rd - wr + CNT - 1)

\* mutant of the free count: no slot kept in reserve
OPT_free_noreserve(rd, wr) == BitAnd(U32(rd - wr + CNT), MASK)

\* (rd_idx - write_idx + CNT - 1) & MASK
OPT_free(rd, wr) == BitAnd(U32(rd - wr + CNT - 1), MASK)

\* alloc enters "if (free_write_cnt == 0)", where it loads read_idx
OPT_alloc_loads == free_write_cnt = 0

\* mutant of alloc: the free count is never recomputed
OPT_alloc_cnt_keep == free_write_cnt

\* free_write_cnt after alloc: recomputed from read_idx only when it is 0
OPT_alloc_cnt ==
  IF OPT_alloc_loads THEN OPT_free(read_idx, write_idx) ELSE free_write_cnt

\* alloc's return value: &blk[write_idx].data
OPT_alloc_ret ==
  IF OPT_alloc_cnt = 0 THEN NullPtr ELSE write_idx

\* mutant of the cursor's advance: the cursor stays where it is
OPT_next_stay(i) == BitAnd(i, MASK)

\* (i + 1) & MASK
OPT_next(i) == BitAnd(U32(i + 1), MASK)

\* mutant of front: the test of the flag inverted
OPT_front_inverted ==
  IF avail[read_idx] THEN NullPtr ELSE read_idx

\* front's return value: &blk[read_idx].data when blk[read_idx].avail
OPT_front_ret ==
  IF ~avail[read_idx] THEN NullPtr ELSE read_idx

(* ----------------------- the call of alloc / front -------------------- *)
alloc_ret == IF IsQ THEN Q_alloc_ret ELSE OPT_alloc_ret

front_ret == IF IsQ THEN Q_front_ret ELSE OPT_front_ret

alloc_loads == IF IsQ THEN Q_alloc_loads ELSE OPT_alloc_loads

\* mutant of the null test: inverted
IsNull_inverted(p) == p # NullPtr

\* "if (!p) return false" of tryPush, "if (!v) return false" of tryPop
IsNull(p) == p = NullPtr

\* the effect of one call of alloc on the queue and on the slot handed out
alloc_effect ==
  /\ read_idx_cach' = (IF IsQ THEN Q_alloc_cach ELSE read_idx_cach)
  /\ free_write_cnt' = (IF IsOPT THEN OPT_alloc_cnt ELSE free_write_cnt)
  /\ p_ptr' = alloc_ret
  /\ slot_st' = (IF alloc_ret = NullPtr THEN slot_st
                 ELSE [slot_st EXCEPT ![alloc_ret] = "Reserved"])
  /\ cach_total' = (IF IsQ /\ alloc_loads THEN Len(popped) ELSE cach_total)
  /\ UNCHANGED <<cls, CNT, data, avail, write_idx, read_idx, pushed, popped>>

\* mutant of front: the consumer refreshes the producer's cache
front_effect_cach ==
  /\ c_ptr' = front_ret
  /\ slot_st' = (IF front_ret = NullPtr THEN slot_st
                 ELSE [slot_st EXCEPT ![front_ret] = "Consumed"])
  /\ read_idx_cach' = read_idx
  /\ free_write_cnt' = (IF IsOPT THEN OPT_free(read_idx, write_idx) ELSE free_write_cnt)
  /\ UNCHANGED <<cls, CNT, data, avail, write_idx, read_idx, pushed, popped, cach_total>>

\* the effect of one call of front: it writes nothing in the queue
front_effect ==
  /\ c_ptr' = front_ret
  /\ slot_st' = (IF front_ret = NullPtr THEN slot_st
                 ELSE [slot_st EXCEPT ![front_ret] = "Consumed"])
  /\ UNCHANGED <<queueVars, pushed, popped, cach_total>>

\* one more step of the call under way; the steps of blockPush, which has no
\* bound, and of the client between calls are not counted
Count(op, n) == IF op \in {"none", "blockPush"} THEN n ELSE n + 1

(* --------------------------- producer thread -------------------------- *)
\* the producer publishes the values 0, 1, 2, ... and stops after MaxPush
MayProduce == Len(pushed) < MaxPush

\* the client calls alloc() (again, while it holds a slot it has not pushed)
CallAlloc ==
  /\ p_op = "none" /\ p_pc \in {"idle", "reserved", "written"}
  /\ MayProduce
  /\ alloc_effect
  /\ p_pc' = (IF alloc_ret = NullPtr THEN "idle"
              ELSE IF p_pc = "idle" THEN "reserved" ELSE p_pc)
  /\ p_ret' = <<"alloc", IF alloc_ret = NullPtr THEN "null" ELSE "slot">>
  /\ p_steps' = 1
  /\ UNCHANGED <<p_op, wcalls, p_base, consVars>>
  /\ ScenStep

\* mutant of tryPush: when alloc returns null it waits for the consumer
\* instead of returning false
CallTryPush_wait ==
  /\ p_op = "none" /\ p_pc = "idle"
  /\ MayProduce
  /\ alloc_effect
  /\ wcalls' = 0 /\ p_base' = Len(pushed) /\ p_steps' = 1
  /\ p_op' = "tryPush" /\ p_ret' = <<"none", "none">>
  /\ p_pc' = (IF IsNull(alloc_ret) THEN "spin" ELSE "reserved")
  /\ UNCHANGED consVars
  /\ ScenStep

\* tryPush(writer): T* p = alloc(); if (!p) return false;
CallTryPush ==
  /\ p_op = "none" /\ p_pc = "idle"
  /\ MayProduce
  /\ alloc_effect
  /\ wcalls' = 0 /\ p_base' = Len(pushed) /\ p_steps' = 1
  /\ IF IsNull(alloc_ret)
     THEN p_pc' = "idle" /\ p_op' = "none" /\ p_ret' = <<"tryPush", "false">>
     ELSE p_pc' = "reserved" /\ p_op' = "tryPush" /\ p_ret' = <<"none", "none">>
  /\ UNCHANGED consVars
  /\ ScenStep

\* blockPush(writer): the first tryPush of "while (!tryPush(writer));"
CallBlockPush ==
  /\ p_op = "none" /\ p_pc = "idle"
  /\ MayProduce
  /\ alloc_effect
  /\ wcalls' = 0 /\ p_base' = Len(pushed) /\ p_steps' = 0
  /\ p_op' = "blockPush" /\ p_ret' = <<"none", "none">>
  /\ p_pc' = (IF IsNull(alloc_ret) THEN "spin" ELSE "reserved")
  /\ UNCHANGED consVars
  /\ ScenStep

\* blockPush(writer): tryPush returned false, the loop calls it again
SpinBlockPush ==
  /\ p_op = "blockPush" /\ p_pc = "spin"
  /\ alloc_effect
  /\ p_pc' = (IF IsNull(alloc_ret) THEN "spin" ELSE "reserved")
  /\ UNCHANGED <<p_op, p_ret, wcalls, p_base, p_steps, consVars>>
  /\ ScenStep

\* writer(p), or the client's own write through p: a T is not written in
\* one access; the slot holds a partial value first
Writer1 ==
  /\ p_pc = "reserved"
  /\ data' = [data EXCEPT ![p_ptr] = Torn]
  /\ p_pc' = "writing"
  /\ wcalls' = (IF p_op = "none" THEN wcalls ELSE wcalls + 1)
  /\ p_steps' = Count(p_op, p_steps)
  /\ UNCHANGED <<cls, CNT, avail, write_idx, read_idx, read_idx_cach, free_write_cnt,
                 p_op, p_ptr, p_ret, p_base, consVars, histVars>>
  /\ ScenStep

Writer2 ==
  /\ p_pc = "writing"
  /\ data' = [data EXCEPT ![p_ptr] = Len(pushed)]
  /\ p_pc' = "written"
  /\ p_steps' = Count(p_op, p_steps)
  /\ UNCHANGED <<cls, CNT, avail, write_idx, read_idx, read_idx_cach, free_write_cnt,
                 p_op, p_ptr, p_ret, wcalls, p_base, consVars, histVars>>
  /\ ScenStep

\* what the producer's call returns when push is its last statement
PushReturn ==
  /\ p_pc' = "idle" /\ p_op' = "none" /\ p_ptr' = NullPtr
  /\ p_ret' = (IF p_op = "tryPush" THEN <<"tryPush", "true">>
               ELSE IF p_op = "blockPush" THEN <<"blockPush", "void">>
               ELSE <<"push", "void">>)

\* SPSCQueue::push(): write_idx.store(write_idx + 1, release)
Q_push ==
  /\ IsQ /\ p_pc = "written"
  /\ write_idx' = Q_next(write_idx)
  /\ pushed' = Append(pushed, data[Q_slot(write_idx)])
  /\ slot_st' = [slot_st EXCEPT ![Q_slot(write_idx)] = "Published"]
  /\ PushReturn
  /\ p_steps' = (IF p_op = "none" THEN 1 ELSE Count(p_op, p_steps))
  /\ UNCHANGED <<cls, CNT, data, avail, read_idx, read_idx_cach, free_write_cnt,
                 wcalls, p_base, consVars, popped, cach_total>>
  /\ ScenStep

\* SPSCQueueOPT::push(), first statement: blk[write_idx].avail.store(true, release)
OPT_push_avail ==
  /\ IsOPT /\ p_pc = "written"
  /\ avail' = [avail EXCEPT ![write_idx] = TRUE]
  /\ pushed' = Append(pushed, data[write_idx])
  /\ slot_st' = [slot_st EXCEPT ![write_idx] = "Published"]
  /\ p_pc' = "push2"
  /\ p_op' = (IF p_op = "none" THEN "push" ELSE p_op)
  /\ p_steps' = (IF p_op = "none" THEN 1 ELSE Count(p_op, p_steps))
  /\ UNCHANGED <<cls, CNT, data, write_idx, read_idx, read_idx_cach, free_write_cnt,
                 p_ptr, p_ret, wcalls, p_base, consVars, popped, cach_total>>
  /\ ScenStep

\* mutant of push: the free count is not decremented
OPT_push_idx_nodec ==
  /\ IsOPT /\ p_pc = "push2"
  /\ write_idx' = OPT_next(write_idx)
  /\ free_write_cnt' = free_write_cnt
  /\ PushReturn
  /\ p_steps' = Count(p_op, p_steps)
  /\ UNCHANGED <<cls, CNT, data, avail, read_idx, read_idx_cach,
                 wcalls, p_base, consVars, histVars>>
  /\ ScenStep

\* SPSCQueueOPT::push(), the rest: write_idx = (write_idx + 1) & MASK; free_write_cnt--
OPT_push_idx ==
  /\ IsOPT /\ p_pc = "push2"
  /\ write_idx' = OPT_next(write_idx)
  /\ free_write_cnt' = U32(free_write_cnt - 1)
  /\ PushReturn
  /\ p_steps' = Count(p_op, p_steps)
  /\ UNCHANGED <<cls, CNT, data, avail, read_idx, read_idx_cach,
                 wcalls, p_base, consVars, histVars>>
  /\ ScenStep

Producer ==
  \/ CallAlloc \/ CallTryPush \/ CallBlockPush \/ SpinBlockPush
  \/ Writer1 \/ Writer2
  \/ Q_push \/ OPT_push_avail \/ OPT_push_idx

(* --------------------------- consumer thread -------------------------- *)
\* the client calls front() (again, while it holds a slot it has not popped)
CallFront ==
  /\ c_op = "none" /\ c_pc \in {"idle", "fronted", "read"}
  /\ front_effect
  /\ c_pc' = (IF front_ret = NullPtr THEN "idle"
              ELSE IF c_pc = "idle" THEN "fronted" ELSE c_pc)
  /\ c_ret' = <<"front", IF front_ret = NullPtr THEN "null" ELSE "slot">>
  /\ c_steps' = 1
  /\ UNCHANGED <<c_op, c_val, rcalls, prodVars>>
  /\ ScenStep

\* tryPop(reader): T* v = front(); if (!v) return false;
CallTryPop ==
  /\ c_op = "none" /\ c_pc = "idle"
  /\ front_effect
  /\ rcalls' = 0 /\ c_steps' = 1
  /\ IF IsNull(front_ret)
     THEN c_pc' = "idle" /\ c_op' = "none" /\ c_ret' = <<"tryPop", "false">>
     ELSE c_pc' = "fronted" /\ c_op' = "tryPop" /\ c_ret' = <<"none", "none">>
  /\ UNCHANGED <<c_val, prodVars>>
  /\ ScenStep

\* reader(v), or the client's own read through v
Reader ==
  /\ c_pc = "fronted"
  /\ c_val' = data[c_ptr]
  /\ c_pc' = "read"
  /\ rcalls' = (IF c_op = "none" THEN rcalls ELSE rcalls + 1)
  /\ c_steps' = Count(c_op, c_steps)
  /\ UNCHANGED <<queueVars, c_op, c_ptr, c_ret, prodVars, histVars>>
  /\ ScenStep

\* what the consumer's call returns when pop is its last statement
PopReturn ==
  /\ c_pc' = "idle" /\ c_op' = "none" /\ c_ptr' = NullPtr /\ c_val' = Uninit
  /\ c_ret' = (IF c_op = "tryPop" THEN <<"tryPop", "true">> ELSE <<"pop", "void">>)

\* SPSCQueue::pop(): read_idx.store(read_idx + 1, release)
Q_pop ==
  /\ IsQ /\ c_pc = "read"
  /\ read_idx' = Q_next(read_idx)
  /\ popped' = Append(popped, c_val)
  /\ slot_st' = [slot_st EXCEPT ![Q_slot(read_idx)] = "Empty"]
  /\ PopReturn
  /\ c_steps' = (IF c_op = "none" THEN 1 ELSE c_steps + 1)
  /\ UNCHANGED <<cls, CNT, data, avail, write_idx, read_idx_cach, free_write_cnt,
                 rcalls, prodVars, pushed, cach_total>>
  /\ ScenStep

\* SPSCQueueOPT::pop(), first statement: blk[read_idx].avail = false
OPT_pop_avail ==
  /\ IsOPT /\ c_pc = "read"
  /\ avail' = [avail EXCEPT ![read_idx] = FALSE]
  /\ slot_st' = [slot_st EXCEPT ![read_idx] = "Empty"]
  /\ c_pc' = "pop2"
  /\ c_op' = (IF c_op = "none" THEN "pop" ELSE c_op)
  /\ c_steps' = (IF c_op = "none" THEN 1 ELSE c_steps + 1)
  /\ UNCHANGED <<cls, CNT, data, write_idx, read_idx, read_idx_cach, free_write_cnt,
                 c_ptr, c_val, c_ret, rcalls, prodVars, pushed, popped,
                 cach_total>>
  /\ ScenStep

\* SPSCQueueOPT::pop(), second statement: read_idx.store((read_idx + 1) & MASK, release)
OPT_pop_idx ==
  /\ IsOPT /\ c_pc = "pop2"
  /\ read_idx' = OPT_next(read_idx)
  /\ popped' = Append(popped, c_val)
  /\ PopReturn
  /\ c_steps' = c_steps + 1
  /\ UNCHANGED <<cls, CNT, data, avail, write_idx, read_idx_cach, free_write_cnt,
                 rcalls, prodVars, pushed, slot_st, cach_total>>
  /\ ScenStep

Consumer ==
  \/ CallFront \/ CallTryPop
  \/ Reader
  \/ Q_pop \/ OPT_pop_avail \/ OPT_pop_idx

(* --------------------------- specifications --------------------------- *)
Next == Producer \/ Consumer

Spec == Init /\ [][Next]_vars

\* both threads keep running: a thread that can take a step that changes
\* the state eventually takes one
FairSpec == Spec /\ WF_vars(Producer) /\ WF_vars(Consumer)

(* ============================== claims ================================ *)
IsPrefix(s, t) ==
  /\ Len(s) <= Len(t)
  /\ \A i \in 1..Len(s) : s[i] = t[i]

\* the values published so far are exactly 0, 1, 2, ... as the writer wrote them
PushedAsWritten == \A i \in 1..Len(pushed) : pushed[i] = i - 1

\* push calls that have returned, pop calls that have returned
PushesCompleted == Len(pushed) - (IF p_pc = "push2" THEN 1 ELSE 0)
PopsCompleted == Len(popped)

\* neither thread is inside a call
Quiescent == p_op = "none" /\ c_op = "none"

\* C1: SPSCQueue is FIFO: in every reachable state of every interleaving the
\* values read at the pops are a prefix of the values pushed, in order, and
\* the values pushed are the values written (none torn, skipped or repeated).
C1_FifoIndexQueue ==
  IsQ => (IsPrefix(popped, pushed) /\ PushedAsWritten)

\* C1 witness: capacity 2, the cursors have gone round the ring more than once,
\* the consumer has popped 5 values while the producer is writing the next slot
C1_Witness ==
  /\ IsQ /\ CNT = 2 /\ Len(popped) = 5 /\ Len(pushed) = 6
  /\ p_pc = "writing" /\ c_pc = "read"

\* C2: SPSCQueueOPT with CNT >= 2 is FIFO in every reachable state, the states
\* between the two statements of push and of pop included.
C2_FifoFlagQueue ==
  (IsOPT /\ CNT >= 2) => (IsPrefix(popped, pushed) /\ PushedAsWritten)

\* C2 witness: the consumer has released a value (its pop is between its two
\* stores for the next one) while the producer is between the two statements
\* of the push of a later value
C2_Witness ==
  /\ IsOPT /\ CNT = 4 /\ Len(popped) = 4 /\ Len(pushed) = 6
  /\ p_pc = "push2" /\ c_pc = "pop2"

\* C3: SPSCQueue holds exactly CNT elements: with neither thread inside a
\* call, alloc returns a slot iff pushes completed - pops completed < CNT.
C3_CapacityIndexQueue ==
  (IsQ /\ Quiescent) =>
     ((Q_alloc_ret # NullPtr) <=> (PushesCompleted - PopsCompleted < CNT))

\* C3 witness: CNT = 4 pushes, no pop, and the next alloc has returned null
C3_Witness ==
  /\ IsQ /\ CNT = 4 /\ Len(pushed) = 4 /\ Len(popped) = 0
  /\ p_ret = <<"alloc", "null">> /\ Quiescent

\* C4: SPSCQueueOPT holds exactly CNT - 1 elements: never more than CNT - 1
\* are published and not released, and with neither thread inside a call
\* alloc returns a slot iff pushes completed - pops completed < CNT - 1.
C4_CapacityFlagQueue ==
  IsOPT =>
     /\ Len(pushed) - Len(popped) <= CNT - 1
     /\ Quiescent =>
          ((OPT_alloc_ret # NullPtr) <=> (PushesCompleted - PopsCompleted < CNT - 1))

\* C4 witness: CNT = 4, the queue was full, one pop let one more push through,
\* and the alloc after that has returned null again
C4_Witness ==
  /\ IsOPT /\ CNT = 4 /\ Len(pushed) = 4 /\ Len(popped) = 1
  /\ p_ret = <<"alloc", "null">> /\ Quiescent

\* the life cycle of a slot
SlotCycle ==
  { <<"Empty", "Reserved">>, <<"Reserved", "Published">>,
    <<"Published", "Consumed">>, <<"Consumed", "Empty">> }

\* the slot a thread holds a pointer to
ProducerHolds(i) == p_pc \in {"reserved", "writing", "written"} /\ p_ptr = i
ConsumerHolds(i) == c_pc \in {"fronted", "read"} /\ c_ptr = i

\* C5: in SPSCQueue every slot moves only along Empty -> Reserved -> Published
\* -> Consumed -> Empty (so alloc hands out no Published or Consumed slot and
\* front no Empty or Reserved one), the slot the producer writes is Reserved,
\* the slot the consumer reads is Consumed (never both), and the value the
\* consumer reads is a completely written one.
C5_SlotCycleIndexQueue ==
  /\ [](IsQ => \A i \in Slots :
            /\ ProducerHolds(i) => slot_st[i] = "Reserved"
            /\ ConsumerHolds(i) => slot_st[i] = "Consumed"
            /\ ~(ProducerHolds(i) /\ ConsumerHolds(i)))
  /\ [](IsQ /\ c_pc = "read" => c_val \in 0..MaxPush)
  /\ [][IsQ => \A i \in Slots :
            slot_st'[i] # slot_st[i] => <<slot_st[i], slot_st'[i]>> \in SlotCycle]_vars

\* C5 witness: capacity 2, both slots in use: the producer writes one while
\* the consumer reads the other, after the ring has been gone round
C5_Witness ==
  /\ IsQ /\ CNT = 2 /\ Len(popped) >= 2
  /\ p_pc = "writing" /\ c_pc = "read" /\ p_ptr # c_ptr
  /\ slot_st[p_ptr] = "Reserved" /\ slot_st[c_ptr] = "Consumed"

C7_PublishedBecomesVisible ==
  (c_pc = "idle" /\ Len(pushed) > Len(popped))
     ~> (/\ c_pc = "fronted" /\ c_ptr # NullPtr
         /\ data[c_ptr] = pushed[Len(popped) + 1])

\* C7 witness: the queue was drained, one value was pushed after that, and
\* front has returned the slot holding exactly that value
C7_Witness ==
  /\ IsQ /\ CNT = 4 /\ Len(popped) = 8 /\ Len(pushed) = 9
  /\ c_pc = "fronted" /\ c_ret = <<"front", "slot">>
  /\ data[c_ptr] = pushed[Len(pushed)]

\* the slot push publishes, the slot pop releases
PublishSlot == IF IsQ THEN Q_slot(write_idx) ELSE write_idx
ReleaseSlot == IF IsQ THEN Q_slot(read_idx) ELSE read_idx

\* C8: tryPush / tryPop fail without effect, in both classes: the call
\* returns false exactly when its alloc / front returned null; a call that
\* returns false invokes no callback and leaves the cursors, the flags and the
\* slots unchanged; a call that returns true invoked the callback once, on
\* the slot it then publishes / releases.
C8_TryFailureIsNoOp ==
  /\ [][CallTryPush =>
          /\ (p_ret' = <<"tryPush", "false">>) <=> (alloc_ret = NullPtr)
          /\ (p_ret' = <<"tryPush", "false">>) =>
                (wcalls' = 0 /\ UNCHANGED <<write_idx, read_idx, avail, data>>)]_vars
  /\ [][CallTryPop =>
          /\ (c_ret' = <<"tryPop", "false">>) <=> (front_ret = NullPtr)
          /\ (c_ret' = <<"tryPop", "false">>) =>
                (rcalls' = 0 /\ UNCHANGED <<write_idx, read_idx, avail, data,
                                            read_idx_cach, free_write_cnt>>)]_vars
  /\ [][(p_op = "tryPush" /\ (Q_push \/ OPT_push_avail)) =>
          (wcalls = 1 /\ p_ptr = PublishSlot)]_vars
  /\ [][(c_op = "tryPop" /\ (Q_pop \/ OPT_pop_avail)) =>
          (rcalls = 1 /\ c_ptr = ReleaseSlot)]_vars
  /\ [](p_ret = <<"tryPush", "true">> => wcalls = 1)
  /\ [](c_ret = <<"tryPop", "true">> => rcalls = 1)
  /\ [](p_ret = <<"tryPush", "false">> => wcalls = 0)
  /\ [](c_ret = <<"tryPop", "false">> => rcalls = 0)

\* C8 witness: tryPush has returned false on a full SPSCQueue and tryPop has
\* returned false on an empty one before that
C8_Witness ==
  /\ IsQ /\ CNT = 2 /\ Len(pushed) = 2 /\ Len(popped) = 0
  /\ p_ret = <<"tryPush", "false">> /\ c_ret = <<"tryPop", "false">>
  /\ wcalls = 0 /\ rcalls = 0

\* C9: with both threads running, every blockPush call returns (SPSCQueue of
\* any capacity, SPSCQueueOPT of capacity >= 2), and when it returns its
\* writer ran once and exactly one value was published by the call.
C9_BlockPushReturns ==
  (p_op = "blockPush" /\ ~(IsOPT /\ CNT = 1))
     ~> (/\ p_pc = "idle" /\ p_ret = <<"blockPush", "void">>
         /\ wcalls = 1 /\ Len(pushed) = p_base + 1)

\* C9 witness: a blockPush on a queue that holds one element has returned
\* after tryPop made room for its value
C9_Witness ==
  /\ IsOPT /\ CNT = 2 /\ p_pc = "idle" /\ p_ret = <<"blockPush", "void">>
  /\ wcalls = 1 /\ Len(pushed) = p_base + 1
  /\ Len(pushed) = 3 /\ Len(popped) = 2 /\ c_ret = <<"tryPop", "true">>

\* the steps of a producer call / consumer call that is under way
ProducerCallStep == Writer1 \/ Writer2 \/ Q_push \/ OPT_push_avail \/ OPT_push_idx
ConsumerCallStep == Reader \/ Q_pop \/ OPT_pop_avail \/ OPT_pop_idx

\* C10: every call other than blockPush ends within a fixed number of steps
\* of its own thread, whatever the other thread does: a call under way
\* always has a step it can take (none waits for the other thread), and no
\* call takes more than 5 steps (alloc, front 1; push, pop at most 2;
\* tryPop at most 4; tryPush at most 5).
C10_NonBlocking ==
  /\ p_op \in {"push", "tryPush"} => (ENABLED ProducerCallStep /\ p_steps <= 4)
  /\ c_op \in {"pop", "tryPop"} => (ENABLED ConsumerCallStep /\ c_steps <= 3)
  /\ p_ret[1] = "alloc" /\ p_op = "none" => p_steps = 1
  /\ p_ret[1] = "push" => p_steps <= 2
  /\ p_ret[1] = "tryPush" => p_steps <= 5
  /\ c_ret[1] = "front" /\ c_op = "none" => c_steps = 1
  /\ c_ret[1] = "pop" => c_steps <= 2
  /\ c_ret[1] = "tryPop" => c_steps <= 4

\* C10 witness: a tryPush on SPSCQueueOPT is at its last step while the
\* consumer stands between the two stores of its pop
C10_Witness ==
  /\ IsOPT /\ CNT = 2 /\ p_op = "tryPush" /\ p_pc = "push2" /\ p_steps = 4
  /\ c_pc = "pop2"

\* C11: SPSCQueueOPT with CNT = 1 never holds an element: free_write_cnt
\* starts at 0 and stays 0, every alloc and every front returns null, so
\* tryPush never returns true, nothing is ever published and a blockPush
\* that was called is still spinning.
C11_FlagQueueOfOneHoldsNothing ==
  (IsOPT /\ CNT = 1) =>
     /\ free_write_cnt = 0
     /\ OPT_alloc_ret = NullPtr /\ OPT_front_ret = NullPtr
     /\ pushed = <<>> /\ popped = <<>>
     /\ p_ret \in {<<"none", "none">>, <<"alloc", "null">>, <<"tryPush", "false">>}
     /\ c_ret \in {<<"none", "none">>, <<"front", "null">>, <<"tryPop", "false">>}
     /\ p_pc \in {"idle", "spin"}
     /\ p_op = "blockPush" => p_pc = "spin"

\* C11 witness: on the queue of one block tryPop has returned false and a
\* blockPush is spinning
C11_Witness ==
  /\ IsOPT /\ CNT = 1 /\ p_op = "blockPush" /\ p_pc = "spin"
  /\ c_ret = <<"tryPop", "false">>

\* both threads are between two calls and hold no slot
BothIdle == p_pc = "idle" /\ c_pc = "idle"

\* along scenario A every call can only return what the scenario says: the
\* first four tryPush and the sixth find a slot, the fifth finds none, and
\* every front of the five front/pop pairs finds an element
ScenReturnsAsStated ==
  /\ (scen \in {0, 1, 2, 3, 6} /\ BothIdle) => ~IsNull(Q_alloc_ret)
  /\ (scen = 4 /\ BothIdle) => IsNull(Q_alloc_ret)
  /\ (scen \in {5, 7, 8, 9, 10} /\ BothIdle) => ~IsNull(Q_front_ret)

\* C12 as stated: scenario A runs as described and the four front/pop pairs
\* after the sixth tryPush yield A, B, C, D (the values 0, 1, 2, 3).
C12_ScenarioA_AsStated ==
  /\ ScenReturnsAsStated
  /\ scen = ScenDone => SubSeq(popped, 2, 5) = <<0, 1, 2, 3>>

\* C12 amended: scenario A runs as described; the front/pop before the sixth
\* tryPush yields A, and the four front/pop pairs after it yield B, C, D, E
\* (the values 1, 2, 3, 4).
C12_ScenarioA ==
  /\ ScenReturnsAsStated
  /\ (scen \in 6..ScenDone) => (Len(popped) >= 1 /\ popped[1] = 0)
  /\ scen = ScenDone => (Len(popped) = 5 /\ SubSeq(popped, 2, 5) = <<1, 2, 3, 4>>)

\* C12 witness: the whole of scenario A has been performed
C12_Witness ==
  /\ IsQ /\ CNT = ScenarioCNT /\ scen = ScenDone /\ BothIdle
  /\ c_ret \in {<<"pop", "void">>, <<"tryPop", "true">>}

\* the stages of a slot's life in which its flag is set
FlagSet == {"Published", "Consumed"}

\* C13: in SPSCQueueOPT every slot moves only along Empty -> Reserved (being
\* written) -> Published -> Consumed (being read) -> Empty, with avail false
\* in the first two stages and true in the last two; the slot alloc returned
\* has avail false as long as the producer holds it; data is written only in a
\* slot the producer holds, whose avail is false; and avail goes from true to
\* false only in pop's first statement, on the slot at read_idx, before
\* read_idx moves on.
C13_SlotCycleFlagQueue ==
  /\ [](IsOPT => \A i \in Slots :
            /\ avail[i] <=> slot_st[i] \in FlagSet
            /\ ProducerHolds(i) => (slot_st[i] = "Reserved" /\ ~avail[i])
            /\ ConsumerHolds(i) => (slot_st[i] = "Consumed" /\ avail[i]))
  /\ [](IsOPT /\ c_pc = "pop2" => ~avail[read_idx])
  /\ [][IsOPT => \A i \in Slots :
            /\ slot_st'[i] # slot_st[i] => <<slot_st[i], slot_st'[i]>> \in SlotCycle
            /\ data'[i] # data[i] => (ProducerHolds(i) /\ ~avail[i] /\ ~avail'[i])
            /\ (avail[i] /\ ~avail'[i]) =>
                  /\ c_pc = "read" /\ c_pc' = "pop2"
                  /\ i = read_idx /\ read_idx' = read_idx
            /\ (~avail[i] /\ avail'[i]) =>
                  (p_pc = "written" /\ p_pc' = "push2" /\ i = p_ptr /\ i = write_idx)]_vars

\* C13 witness: capacity 4, after the ring has been gone round: the producer
\* is writing a slot whose flag is false while the consumer is between the two
\* statements of pop, the flag of the slot at read_idx already false, and a
\* third slot is published
C13_Witness ==
  /\ IsOPT /\ CNT = 4 /\ Len(popped) >= 4
  /\ p_pc = "writing" /\ ~avail[p_ptr]
  /\ c_pc = "pop2" /\ ~avail[read_idx] /\ p_ptr # read_idx
  /\ \E i \in Slots : avail[i] /\ slot_st[i] = "Published"

\* the cursors as counters that never wrap: the pushes and pops made so far
WriteTotal == Len(pushed)
ReadTotal == Len(popped)

\* C14: in SPSCQueue the cursors are the unbounded counts reduced mod 2^w; in
\* every reachable state write_idx - read_idx, taken mod 2^w, lies in 0..CNT,
\* also once write_idx has wrapped and read_idx has not; and alloc's full
\* test (on the cache and on read_idx), front's empty test and the slot index
\* answer as the unbounded counts would.
C14_WrappingCursors ==
  IsQ =>
    /\ write_idx = U32(WriteTotal) /\ read_idx = U32(ReadTotal)
    /\ read_idx_cach = U32(cach_total)
    /\ U32(write_idx - read_idx) \in 0..CNT
    /\ U32(write_idx - read_idx) = WriteTotal - ReadTotal
    /\ Q_full(write_idx, read_idx_cach) <=> (WriteTotal - cach_total = CNT)
    /\ Q_full(write_idx, read_idx) <=> (WriteTotal - ReadTotal = CNT)
    /\ Q_empty(read_idx, write_idx) <=> (ReadTotal = WriteTotal)
    /\ Q_slot(write_idx) = WriteTotal % CNT
    /\ Q_slot(read_idx) = ReadTotal % CNT

\* C14 witness: capacity 4; write_idx has wrapped to 0 and read_idx has not,
\* the queue is full, and a tryPush that reloaded the cache has returned false
C14_Witness ==
  /\ IsQ /\ CNT = 4 /\ WriteTotal = Wrap /\ write_idx = 0
  /\ read_idx = Wrap - CNT /\ read_idx_cach = read_idx /\ write_idx < read_idx
  /\ p_ret = <<"tryPush", "false">>

\* the steps that are a call of alloc (by the client, tryPush or blockPush)
\* and a call of front (by the client or tryPop)
AllocStep == CallAlloc \/ CallTryPush \/ CallBlockPush \/ SpinBlockPush
FrontStep == CallFront \/ CallTryPop

\* C15: each cursor has one writer, in both classes: no producer step changes
\* read_idx; no consumer step changes write_idx, read_idx_cach or
\* free_write_cnt; alloc changes nothing the consumer reads and front nothing
\* at all in the queue; the producer changes a flag only to true and the
\* consumer only to false.
C15_SingleWriter ==
  [][/\ Producer => /\ read_idx' = read_idx
                    /\ \A i \in Slots : avail'[i] \in {avail[i], TRUE}
     /\ Consumer => /\ write_idx' = write_idx
                    /\ read_idx_cach' = read_idx_cach
                    /\ free_write_cnt' = free_write_cnt
                    /\ data' = data
                    /\ \A i \in Slots : avail'[i] \in {avail[i], FALSE}
     /\ AllocStep => UNCHANGED <<write_idx, read_idx, avail, data>>
     /\ FrontStep => UNCHANGED queueVars]_vars

\* C15 witness: SPSCQueueOPT of capacity 4 after pushes and pops by both
\* threads: each holds a slot, a flag is set, and the producer's free count
\* lags behind read_idx, which only the consumer has moved
C15_Witness ==
  /\ IsOPT /\ CNT = 4 /\ Len(popped) >= 2
  /\ p_pc = "reserved" /\ c_pc = "fronted"
  /\ p_ret = <<"alloc", "slot">> /\ c_ret = <<"front", "slot">>
  /\ free_write_cnt < OPT_free(read_idx, write_idx)
  /\ \E i \in Slots : avail[i]

\* what alloc returns when it loads read_idx and recomputes the free count
OPT_reload_ret ==
  IF OPT_free(read_idx, write_idx) = 0 THEN NullPtr ELSE write_idx

\* C16: in SPSCQueueOPT with CNT >= 2 full and empty never look alike: with
\* neither thread between the two statements of push or of pop, an alloc that
\* reloads read_idx and front do not both return null; so while blockPush
\* spins and the consumer is between two calls of tryPop, the next alloc or
\* the next front finds a slot, and the two loops are never stuck for good.
C16_FullAndEmptyDiffer ==
  (IsOPT /\ CNT >= 2) =>
    /\ (p_pc # "push2" /\ c_pc # "pop2") =>
          ~(IsNull(OPT_reload_ret) /\ IsNull(OPT_front_ret))
    /\ (p_pc = "spin" /\ c_pc = "idle") =>
          ~(IsNull(OPT_alloc_ret) /\ IsNull(OPT_front_ret))

\* C16 witness: capacity 2, blockPush spins on a free count of 0 while tryPop
\* has emptied the queue: front returns null and the next alloc, which
\* reloads read_idx, a slot
C16_Witness ==
  /\ IsOPT /\ CNT = 2 /\ p_op = "blockPush" /\ p_pc = "spin"
  /\ c_pc = "idle" /\ c_ret = <<"tryPop", "true">>
  /\ free_write_cnt = 0 /\ IsNull(OPT_front_ret) /\ ~IsNull(OPT_alloc_ret)

\* the producer's cache says the queue is full
CacheSaysFull ==
  IF IsQ THEN U32(write_idx - read_idx_cach) = CNT ELSE free_write_cnt = 0

\* the slot at the producer's cursor
LocalSlot == IF IsQ THEN Q_slot(write_idx) ELSE write_idx

\* C17: in both classes a call of alloc loads read_idx only if it starts with
\* the cache saying full (write_idx - read_idx_cach = CNT, free_write_cnt = 0);
\* every other call of alloc leaves the cache as it is and returns the slot
\* at write_idx, whatever read_idx is.
C17_LoadsOnlyWhenCacheFull ==
  [][AllocStep =>
       /\ alloc_loads => CacheSaysFull
       /\ ~CacheSaysFull =>
            /\ UNCHANGED <<read_idx_cach, free_write_cnt, cach_total>>
            /\ p_ptr' = LocalSlot /\ ~IsNull(p_ptr')]_vars

\* C17 witness: SPSCQueue of capacity 4, two values pushed and popped; alloc
\* has returned the third slot and read_idx_cach is still the 0 it started
\* with, two behind read_idx: no call of alloc has loaded read_idx
C17_Witness ==
  /\ IsQ /\ CNT = 4 /\ WriteTotal = 2 /\ ReadTotal = 2
  /\ p_pc = "reserved" /\ p_ret = <<"alloc", "slot">> /\ p_ptr = 2
  /\ read_idx_cach = 0 /\ read_idx = 2 /\ cach_total = 0

\* C18: a reservation is stable, in both classes: while the producer holds a
\* slot it has not pushed, alloc returns that slot, in every state any steps
\* of the consumer lead to, and a call of alloc made then returns it; while
\* the consumer holds a slot it has not popped, front returns that slot, in
\* every state any steps of the producer lead to, a call of front made then
\* returns it, and the slot's contents, a value completely written, do not
\* change.
C18_StableReservation ==
  /\ [](\A i \in Slots :
          /\ ProducerHolds(i) => (alloc_ret = i /\ LocalSlot = i)
          /\ ConsumerHolds(i) => (front_ret = i /\ data[i] \in 0..MaxPush))
  /\ [](c_pc = "read" => c_val = data[c_ptr])
  /\ [][/\ (CallAlloc /\ p_pc # "idle") => (p_ptr' = p_ptr /\ p_pc' = p_pc)
        /\ (CallFront /\ c_pc # "idle") => (c_ptr' = c_ptr /\ c_pc' = c_pc)
        /\ \A i \in Slots :
             (ConsumerHolds(i) /\ c_pc' \in {"fronted", "read"}) =>
                 (c_ptr' = i /\ data'[i] = data[i])]_vars

\* C18 witness: SPSCQueue of capacity 4 gone round once: the client has called
\* alloc and written the slot, and has called front and read the other slot,
\* after pops and pushes that came since read_idx_cach was loaded
C18_Witness ==
  /\ IsQ /\ CNT = 4 /\ ReadTotal >= 4 /\ WriteTotal = ReadTotal + 1
  /\ p_pc = "written" /\ p_ret = <<"alloc", "slot">>
  /\ c_pc = "read" /\ c_ret = <<"front", "slot">>
  /\ p_ptr # c_ptr /\ cach_total < ReadTotal

\* the slots of SPSCQueue that hold a value pushed and not yet popped
Unreleased == { k % CNT : k \in ReadTotal..(WriteTotal - 1) }

\* C19: in SPSCQueue read_idx_cach never runs ahead of read_idx: in every
\* reachable state, in uint32_t arithmetic, read_idx - read_idx_cach <=
\* write_idx - read_idx_cach <= CNT; so the free space the cache shows is at
\* most the real one, and the slot alloc returned is not one the consumer has
\* yet to release.
C19_CacheNeverAhead ==
  IsQ =>
    /\ U32(read_idx - read_idx_cach) <= U32(write_idx - read_idx_cach)
    /\ U32(write_idx - read_idx_cach) <= CNT
    /\ cach_total <= ReadTotal
    /\ CNT - U32(write_idx - read_idx_cach) <= CNT - (WriteTotal - ReadTotal)
    /\ \A i \in Slots : ProducerHolds(i) => i \notin Unreleased

\* C19 witness: capacity 4; write_idx has wrapped, read_idx_cach and read_idx
\* have not, read_idx_cach is behind read_idx, and alloc has returned a slot
\* while the other slots are not all released
C19_Witness ==
  /\ IsQ /\ CNT = 4 /\ write_idx < read_idx_cach /\ read_idx_cach < read_idx
  /\ p_pc = "reserved" /\ p_ret = <<"alloc", "slot">>
  /\ Unreleased # {}

\* the blocks of SPSCQueueOPT the producer may still fill, one kept in reserve
FreeBlocks == (read_idx - write_idx + CNT - 1) % CNT

\* C20: in SPSCQueueOPT free_write_cnt never shows more free space than there
\* is and never underflows: outside push, free_write_cnt <= (read_idx -
\* write_idx + CNT - 1) mod CNT; free_write_cnt is at least 1 whenever push
\* is about to decrement it, and at most CNT - 1 in every state.
C20_FreeCountNeverOver ==
  IsOPT =>
    /\ p_pc # "push2" => free_write_cnt <= FreeBlocks
    /\ FreeBlocks = OPT_free(read_idx, write_idx)
    /\ p_pc \in {"reserved", "writing", "written", "push2"} => free_write_cnt >= 1
    /\ free_write_cnt \in 0..(CNT - 1)

\* C20 witness: capacity 4, after the ring has been gone round: push has
\* taken free_write_cnt from 1 to 0 and returned, while pops have freed
\* blocks that the count does not show yet
C20_Witness ==
  /\ IsOPT /\ CNT = 4 /\ WriteTotal >= 4
  /\ p_pc = "idle" /\ p_ret \in {<<"push", "void">>, <<"tryPush", "true">>}
  /\ free_write_cnt = 0 /\ FreeBlocks >= 2

=============================================================================
